---- MODULE Spec2Model ----
(***************************************************************************)
(* The host domain model of cpp-app: Address, ContactInfo and Person       *)
(* (person.h), the bridge factories and accessors (person.cpp) and the     *)
(* object lifetimes the orchestrator (main.cpp) creates with               *)
(* std::shared_ptr / std::unique_ptr.                                      *)
(*                                                                         *)
(* Objects live in three heaps indexed by identity.  A shared_ptr is an    *)
(* identity (Null = 0 for the empty pointer); its control block is the rc  *)
(* field of the object it owns.  A double is an exact rational, or inf or  *)
(* nan where IEEE division by zero produces them; rounding is abstracted.  *)
(***************************************************************************)
EXTENDS Integers, FiniteSets, Sequences, TLC

\* ---------------------------------------------------------------- bounds
MaxAddr == 2
MaxContact == 2
MaxPerson == 2
MaxHandles == 2

AddrIds == 1..MaxAddr
ContactIds == 1..MaxContact
PersonIds == 1..MaxPerson

\* the empty shared_ptr
Null == 0

\* the threshold of Person::is_adult
AdultAge == 18

\* ------------------------------------------------------------- doubles
RECURSIVE Gcd(_, _)
Gcd(a, b) == IF b = 0 THEN a ELSE Gcd(b, a % b)

Abs(n) == IF n < 0 THEN -n ELSE n

\* the finite double n/d in lowest terms, d > 0
Fin(n, d) ==
    LET g == Gcd(Abs(n), d)
    IN  [k |-> "fin", n |-> n \div g, d |-> d \div g]

Zero == [k |-> "fin", n |-> 0, d |-> 1]
PosInf == [k |-> "inf", n |-> 1, d |-> 0]
NegInf == [k |-> "inf", n |-> -1, d |-> 0]
NaN == [k |-> "nan", n |-> 0, d |-> 0]

\* x <= y on doubles; any comparison with nan is false
DLeq(x, y) ==
    IF x.k = "nan" \/ y.k = "nan" THEN FALSE
    ELSE IF x.k = "inf" THEN x.n < 0 \/ (y.k = "inf" /\ y.n > 0)
    ELSE IF y.k = "inf" THEN y.n > 0
    ELSE x.n * y.d <= y.n * x.d

\* x * y on doubles
DMul(x, y) ==
    IF x.k = "nan" \/ y.k = "nan" THEN NaN
    ELSE IF x.k = "inf" \/ y.k = "inf"
         THEN IF x.n = 0 \/ y.n = 0 THEN NaN
              ELSE IF (x.n < 0) = (y.n < 0) THEN PosInf ELSE NegInf
    ELSE Fin(x.n * y.n, x.d * y.d)

\* x / y on doubles; a zero divisor gives inf, or nan for 0/0
DDiv(x, y) ==
    IF x.k = "nan" \/ y.k = "nan" THEN NaN
    ELSE IF x.k = "inf"
         THEN IF y.k = "inf" THEN NaN
              ELSE IF (x.n < 0) = (y.n < 0) THEN PosInf ELSE NegInf
    ELSE IF y.k = "inf" THEN Zero
    ELSE IF y.n = 0
         THEN IF x.n = 0 THEN NaN ELSE IF x.n > 0 THEN PosInf ELSE NegInf
    ELSE IF y.n > 0 THEN Fin(x.n * y.d, x.d * y.n)
    ELSE Fin(-(x.n * y.d), x.d * (-y.n))

\* ------------------------------------------------------------ entities
\* Address::Address
Address_swapped(street, city, postal_code) ==
    [st |-> "live", rc |-> 1,
     street_ |-> street, city_ |-> postal_code, postal_code_ |-> city]
Address(street, city, postal_code) ==
    [st |-> "live", rc |-> 1,
     street_ |-> street, city_ |-> city, postal_code_ |-> postal_code]

\* ContactInfo::ContactInfo
ContactInfo(email, phone, address) ==
    [st |-> "live", rc |-> 1,
     email_ |-> email, phone_ |-> phone, address_ |-> address]

\* Person::Person
Person(age, height, name, contact) ==
    [st |-> "live",
     age_ |-> age, height_ |-> height, name_ |-> name, contact_ |-> contact]

\* a slot of a heap before its object is made, and after it is destroyed
NoAddress(s) ==
    [st |-> s, rc |-> 0, street_ |-> "", city_ |-> "", postal_code_ |-> ""]
NoContact(s) ==
    [st |-> s, rc |-> 0, email_ |-> "", phone_ |-> "", address_ |-> Null]
NoPerson(s) ==
    [st |-> s, age_ |-> 0, height_ |-> Zero, name_ |-> "", contact_ |-> Null]

\* getters of Address
street(a) == a.street_
city(a) == a.city_
postal_code(a) == a.postal_code_

\* getters of ContactInfo; address() is *address_, address_ptr() the pointer
email(c) == c.email_
phone(c) == c.phone_
address(c) == c.address_
address_ptr(c) == c.address_

\* getters of Person; contact() is *contact_
age(p) == p.age_
height(p) == p.height_
name(p) == p.name_
contact(p) == p.contact_

\* Person::is_adult
is_adult_gt(p) == p.age_ > AdultAge
is_adult(p) == p.age_ >= AdultAge

\* Person::calculate_bmi
calculate_bmi_strict(p, weight_kg) ==
    IF DLeq(p.height_, Zero) /\ p.height_ # Zero THEN Zero
    ELSE DDiv(weight_kg, DMul(p.height_, p.height_))
calculate_bmi_linear(p, weight_kg) ==
    IF DLeq(p.height_, Zero) THEN Zero
    ELSE DDiv(weight_kg, p.height_)
calculate_bmi(p, weight_kg) ==
    IF DLeq(p.height_, Zero) THEN Zero
    ELSE DDiv(weight_kg, DMul(p.height_, p.height_))

\* the bridge factories
create_address(s, c, p) == Address(s, c, p)
create_contact_info(e, ph, a) == ContactInfo(e, ph, a)
create_person(ag, h, n, c) == Person(ag, h, n, c)

\* --------------------------------------------------------------- state
VARIABLES
    addrs,      \* the Address objects, by identity
    contacts,   \* the ContactInfo objects, by identity
    persons,    \* the Person objects, by identity
    hA,         \* hA[a]: the pointers to Address a held by the caller
    hC,         \* hC[c]: the pointers to ContactInfo c held by the caller
    build,      \* what operator* of an empty pointer does in this build
    call        \* the last call made and what it returned

heap == <<addrs, contacts, persons>>
vars == <<addrs, contacts, persons, hA, hC, build, call>>

\* a call record: the function, the object it was called on, the weight
\* argument of calculate_bmi, and the returned value by type
Blank ==
    [op |-> "", target |-> Null, w |-> Zero, kind |-> "void",
     text |-> "", num |-> 0, dbl |-> Zero, flag |-> FALSE]
RetVoid(op, t) == [Blank EXCEPT !.op = op, !.target = t]
RetText(op, t, s) == [RetVoid(op, t) EXCEPT !.kind = "text", !.text = s]
RetInt(op, t, n) == [RetVoid(op, t) EXCEPT !.kind = "int", !.num = n]
RetDbl(op, t, x) == [RetVoid(op, t) EXCEPT !.kind = "double", !.dbl = x]
RetBool(op, t, b) == [RetVoid(op, t) EXCEPT !.kind = "bool", !.flag = b]
RetRef(op, t, id) == [RetVoid(op, t) EXCEPT !.kind = "ref", !.num = id]
RetFault(op, t) == [RetVoid(op, t) EXCEPT !.kind = "fault"]

\* operator* of a shared_ptr: undefined for the empty pointer.  A build with
\* library assertions aborts; any other build binds the reference to null.
\* Which of the two the build is shows at the first such call.
Builds(ptr) ==
    IF ptr = Null /\ build = "unknown" THEN {"plain", "hardened"}
    ELSE {build}

Deref(op, t, ptr, b) ==
    IF ptr # Null THEN RetRef(op, t, ptr)
    ELSE IF b = "hardened" THEN RetFault(op, t)
    ELSE RetRef(op, t, Null)

\* the process runs until a call aborts it
Running == call.kind # "fault"

Init ==
    /\ addrs = [a \in AddrIds |-> NoAddress("unalloc")]
    /\ contacts = [c \in ContactIds |-> NoContact("unalloc")]
    /\ persons = [p \in PersonIds |-> NoPerson("unalloc")]
    /\ hA = [a \in AddrIds |-> 0]
    /\ hC = [c \in ContactIds |-> 0]
    /\ build = "unknown"
    /\ call = Blank

\* the identity of the next object made in heap H, Null when H is full
NextFree(H, Ids) ==
    IF \E i \in Ids : H[i].st = "unalloc"
    THEN CHOOSE i \in Ids :
            /\ H[i].st = "unalloc"
            /\ \A j \in Ids : H[j].st = "unalloc" => i <= j
    ELSE Null

Live(H, i) == i # Null /\ H[i].st = "live"

\* the objects made so far
Population ==
    Cardinality({a \in AddrIds : addrs[a].st # "unalloc"})
    + Cardinality({c \in ContactIds : contacts[c].st # "unalloc"})
    + Cardinality({p \in PersonIds : persons[p].st # "unalloc"})

\* ----------------------------------------------------- shared ownership
\* a copy of a shared_ptr<Address>
AcquireAddress(A, a) ==
    IF a = Null THEN A ELSE [A EXCEPT ![a].rc = @ + 1]

\* the end of a shared_ptr<Address>: the last one destroys the Address
ReleaseAddress_leak(A, a) ==
    IF a = Null THEN A ELSE [A EXCEPT ![a].rc = @ - 1]
ReleaseAddress(A, a) ==
    IF a = Null THEN A
    ELSE IF A[a].rc = 1 THEN [A EXCEPT ![a] = NoAddress("freed")]
    ELSE [A EXCEPT ![a].rc = @ - 1]

\* a copy of a shared_ptr<ContactInfo>
AcquireContact(C, c) ==
    IF c = Null THEN C ELSE [C EXCEPT ![c].rc = @ + 1]

\* the end of a shared_ptr<ContactInfo>: the last one destroys the
\* ContactInfo, whose destructor ends its address_.  <<contacts, addrs>>
ReleaseContact_owning(C, A, c) ==
    IF c = Null THEN <<C, A>>
    ELSE <<[C EXCEPT ![c] = NoContact("freed")],
           ReleaseAddress(A, C[c].address_)>>
ReleaseContact(C, A, c) ==
    IF c = Null THEN <<C, A>>
    ELSE IF C[c].rc = 1
         THEN <<[C EXCEPT ![c] = NoContact("freed")],
                ReleaseAddress(A, C[c].address_)>>
    ELSE <<[C EXCEPT ![c].rc = @ - 1], A>>

\* -------------------------------------------------------- construction
\* std::make_shared<Address>(street, city, postal_code)
MakeAddress(s, c, p) ==
    LET a == NextFree(addrs, AddrIds) IN
    /\ Running
    /\ a # Null
    /\ addrs' = [addrs EXCEPT ![a] = Address(s, c, p)]
    /\ hA' = [hA EXCEPT ![a] = 1]
    /\ call' = RetRef("Address", Null, a)
    /\ UNCHANGED <<contacts, persons, hC, build>>

\* create_address(street, city, postal_code)
CreateAddress(s, c, p) ==
    LET a == NextFree(addrs, AddrIds) IN
    /\ Running
    /\ a # Null
    /\ addrs' = [addrs EXCEPT ![a] = create_address(s, c, p)]
    /\ hA' = [hA EXCEPT ![a] = 1]
    /\ call' = RetRef("create_address", Null, a)
    /\ UNCHANGED <<contacts, persons, hC, build>>

\* the pointers to an Address the caller can pass: the empty one and those
\* it holds
AddressArgs == {Null} \cup {a \in AddrIds : hA[a] > 0}
ContactArgs == {Null} \cup {c \in ContactIds : hC[c] > 0}

\* a ContactInfo that keeps a copy of the Address instead of the pointer
MakeContactInfo_copy(e, ph, ar) ==
    LET c == NextFree(contacts, ContactIds)
        a == NextFree(addrs, AddrIds) IN
    /\ Running
    /\ c # Null
    /\ ar \in AddressArgs
    /\ ar # Null => a # Null
    /\ contacts' = [contacts EXCEPT
                      ![c] = ContactInfo(e, ph, IF ar = Null THEN Null ELSE a)]
    /\ addrs' = IF ar = Null THEN addrs
                ELSE [addrs EXCEPT ![a] = [addrs[ar] EXCEPT !.rc = 1]]
    /\ hC' = [hC EXCEPT ![c] = 1]
    /\ call' = RetRef("ContactInfo", Null, c)
    /\ UNCHANGED <<persons, hA, build>>

\* std::make_shared<ContactInfo>(email, phone, address): the member address_
\* is one more pointer to the Address
MakeContactInfo(e, ph, ar) ==
    LET c == NextFree(contacts, ContactIds) IN
    /\ Running
    /\ c # Null
    /\ ar \in AddressArgs
    /\ contacts' = [contacts EXCEPT ![c] = ContactInfo(e, ph, ar)]
    /\ addrs' = AcquireAddress(addrs, ar)
    /\ hC' = [hC EXCEPT ![c] = 1]
    /\ call' = RetRef("ContactInfo", Null, c)
    /\ UNCHANGED <<persons, hA, build>>

\* create_contact_info(email, phone, address)
CreateContactInfo(e, ph, ar) ==
    LET c == NextFree(contacts, ContactIds) IN
    /\ Running
    /\ c # Null
    /\ ar \in AddressArgs
    /\ contacts' = [contacts EXCEPT ![c] = create_contact_info(e, ph, ar)]
    /\ addrs' = AcquireAddress(addrs, ar)
    /\ hC' = [hC EXCEPT ![c] = 1]
    /\ call' = RetRef("create_contact_info", Null, c)
    /\ UNCHANGED <<persons, hA, build>>

\* std::make_unique<Person>(age, height, name, contact): the member contact_
\* is one more pointer to the ContactInfo
MakePerson(ag, h, n, cr) ==
    LET p == NextFree(persons, PersonIds) IN
    /\ Running
    /\ p # Null
    /\ cr \in ContactArgs
    /\ persons' = [persons EXCEPT ![p] = Person(ag, h, n, cr)]
    /\ contacts' = AcquireContact(contacts, cr)
    /\ call' = RetRef("Person", Null, p)
    /\ UNCHANGED <<addrs, hA, hC, build>>

\* create_person(age, height, name, contact)
CreatePerson(ag, h, n, cr) ==
    LET p == NextFree(persons, PersonIds) IN
    /\ Running
    /\ p # Null
    /\ cr \in ContactArgs
    /\ persons' = [persons EXCEPT ![p] = create_person(ag, h, n, cr)]
    /\ contacts' = AcquireContact(contacts, cr)
    /\ call' = RetRef("create_person", Null, p)
    /\ UNCHANGED <<addrs, hA, hC, build>>

\* ------------------------------------------------------------ lifetimes
\* ContactInfo::address_ptr: the caller gets one more pointer to the Address
CopyAddressPtr(c) ==
    LET a == address_ptr(contacts[c]) IN
    /\ Running
    /\ Live(contacts, c)
    /\ a # Null => hA[a] < MaxHandles
    /\ addrs' = AcquireAddress(addrs, a)
    /\ hA' = IF a = Null THEN hA ELSE [hA EXCEPT ![a] = @ + 1]
    /\ call' = RetRef("address_ptr", c, a)
    /\ UNCHANGED <<contacts, persons, hC, build>>

\* a pointer to an Address held by the caller goes out of scope
DropAddress(a) ==
    /\ Running
    /\ hA[a] > 0
    /\ hA' = [hA EXCEPT ![a] = @ - 1]
    /\ addrs' = ReleaseAddress(addrs, a)
    /\ call' = RetVoid("~shared_ptr<Address>", a)
    /\ UNCHANGED <<contacts, persons, hC, build>>

\* a pointer to a ContactInfo held by the caller goes out of scope
DropContact(c) ==
    LET r == ReleaseContact(contacts, addrs, c) IN
    /\ Running
    /\ hC[c] > 0
    /\ hC' = [hC EXCEPT ![c] = @ - 1]
    /\ contacts' = r[1]
    /\ addrs' = r[2]
    /\ call' = RetVoid("~shared_ptr<ContactInfo>", c)
    /\ UNCHANGED <<persons, hA, build>>

\* the unique_ptr<Person> goes out of scope: ~Person ends contact_
DestroyPerson(p) ==
    LET r == ReleaseContact(contacts, addrs, persons[p].contact_) IN
    /\ Running
    /\ Live(persons, p)
    /\ persons' = [persons EXCEPT ![p] = NoPerson("freed")]
    /\ contacts' = r[1]
    /\ addrs' = r[2]
    /\ call' = RetVoid("~Person", p)
    /\ UNCHANGED <<hA, hC, build>>

\* -------------------------------------------------------------- setters
\* Address::set_street
set_street(a, v) ==
    /\ Running
    /\ Live(addrs, a)
    /\ addrs' = [addrs EXCEPT ![a].street_ = v]
    /\ call' = RetVoid("set_street", a)
    /\ UNCHANGED <<contacts, persons, hA, hC, build>>

\* Address::set_city
set_city(a, v) ==
    /\ Running
    /\ Live(addrs, a)
    /\ addrs' = [addrs EXCEPT ![a].city_ = v]
    /\ call' = RetVoid("set_city", a)
    /\ UNCHANGED <<contacts, persons, hA, hC, build>>

\* Address::set_postal_code
set_postal_code(a, v) ==
    /\ Running
    /\ Live(addrs, a)
    /\ addrs' = [addrs EXCEPT ![a].postal_code_ = v]
    /\ call' = RetVoid("set_postal_code", a)
    /\ UNCHANGED <<contacts, persons, hA, hC, build>>

\* ContactInfo::set_email
set_email(c, v) ==
    /\ Running
    /\ Live(contacts, c)
    /\ contacts' = [contacts EXCEPT ![c].email_ = v]
    /\ call' = RetVoid("set_email", c)
    /\ UNCHANGED <<addrs, persons, hA, hC, build>>

\* ContactInfo::set_phone
set_phone(c, v) ==
    /\ Running
    /\ Live(contacts, c)
    /\ contacts' = [contacts EXCEPT ![c].phone_ = v]
    /\ call' = RetVoid("set_phone", c)
    /\ UNCHANGED <<addrs, persons, hA, hC, build>>

\* Person::set_age
set_age(p, v) ==
    /\ Running
    /\ Live(persons, p)
    /\ persons' = [persons EXCEPT ![p].age_ = v]
    /\ call' = RetVoid("set_age", p)
    /\ UNCHANGED <<addrs, contacts, hA, hC, build>>

\* a set_height that rejects a non-positive height
set_height_checked(p, v) ==
    /\ Running
    /\ Live(persons, p)
    /\ persons' = IF DLeq(v, Zero) THEN persons
                  ELSE [persons EXCEPT ![p].height_ = v]
    /\ call' = RetVoid("set_height", p)
    /\ UNCHANGED <<addrs, contacts, hA, hC, build>>

\* Person::set_height
set_height(p, v) ==
    /\ Running
    /\ Live(persons, p)
    /\ persons' = [persons EXCEPT ![p].height_ = v]
    /\ call' = RetVoid("set_height", p)
    /\ UNCHANGED <<addrs, contacts, hA, hC, build>>

\* Person::set_name
set_name(p, v) ==
    /\ Running
    /\ Live(persons, p)
    /\ persons' = [persons EXCEPT ![p].name_ = v]
    /\ call' = RetVoid("set_name", p)
    /\ UNCHANGED <<addrs, contacts, hA, hC, build>>

\* ------------------------------------------------------ bridge accessors
get_person_age(p) ==
    /\ Running
    /\ Live(persons, p)
    /\ call' = RetInt("get_person_age", p, age(persons[p]))
    /\ UNCHANGED <<addrs, contacts, persons, hA, hC, build>>

get_person_height(p) ==
    /\ Running
    /\ Live(persons, p)
    /\ call' = RetDbl("get_person_height", p, height(persons[p]))
    /\ UNCHANGED <<addrs, contacts, persons, hA, hC, build>>

\* a get_person_name that moves the name out of the Person
get_person_name_move(p) ==
    /\ Running
    /\ Live(persons, p)
    /\ call' = RetText("get_person_name", p, name(persons[p]))
    /\ persons' = [persons EXCEPT ![p].name_ = ""]
    /\ UNCHANGED <<addrs, contacts, hA, hC, build>>

get_person_name(p) ==
    /\ Running
    /\ Live(persons, p)
    /\ call' = RetText("get_person_name", p, name(persons[p]))
    /\ UNCHANGED <<addrs, contacts, persons, hA, hC, build>>

get_person_contact(p) ==
    /\ Running
    /\ Live(persons, p)
    /\ \E b \in Builds(contact(persons[p])) :
          /\ build' = b
          /\ call' = Deref("get_person_contact", p, contact(persons[p]), b)
    /\ UNCHANGED <<addrs, contacts, persons, hA, hC>>

get_contact_email(c) ==
    /\ Running
    /\ Live(contacts, c)
    /\ call' = RetText("get_contact_email", c, email(contacts[c]))
    /\ UNCHANGED <<addrs, contacts, persons, hA, hC, build>>

get_contact_phone(c) ==
    /\ Running
    /\ Live(contacts, c)
    /\ call' = RetText("get_contact_phone", c, phone(contacts[c]))
    /\ UNCHANGED <<addrs, contacts, persons, hA, hC, build>>

get_contact_address(c) ==
    /\ Running
    /\ Live(contacts, c)
    /\ \E b \in Builds(address(contacts[c])) :
          /\ build' = b
          /\ call' = Deref("get_contact_address", c, address(contacts[c]), b)
    /\ UNCHANGED <<addrs, contacts, persons, hA, hC>>

get_address_street(a) ==
    /\ Running
    /\ Live(addrs, a)
    /\ call' = RetText("get_address_street", a, street(addrs[a]))
    /\ UNCHANGED <<addrs, contacts, persons, hA, hC, build>>

get_address_city(a) ==
    /\ Running
    /\ Live(addrs, a)
    /\ call' = RetText("get_address_city", a, city(addrs[a]))
    /\ UNCHANGED <<addrs, contacts, persons, hA, hC, build>>

get_address_postal_code(a) ==
    /\ Running
    /\ Live(addrs, a)
    /\ call' = RetText("get_address_postal_code", a, postal_code(addrs[a]))
    /\ UNCHANGED <<addrs, contacts, persons, hA, hC, build>>

\* ------------------------------------------------------- business logic
\* person->is_adult()
CallIsAdult(p) ==
    /\ Running
    /\ Live(persons, p)
    /\ call' = RetBool("is_adult", p, is_adult(persons[p]))
    /\ UNCHANGED <<addrs, contacts, persons, hA, hC, build>>

\* person->calculate_bmi(weight_kg)
CallCalculateBmi(p, w) ==
    /\ Running
    /\ Live(persons, p)
    /\ call' = [RetDbl("calculate_bmi", p, calculate_bmi(persons[p], w))
                  EXCEPT !.w = w]
    /\ UNCHANGED <<addrs, contacts, persons, hA, hC, build>>

\* --------------------------------------------------------------- inputs
Texts == {"", "a"}
Ages == {17, 18, 25}
Heights == {Fin(-1, 1), Zero, Fin(7, 4), Fin(2, 1), NaN}
Weights == {Fin(-1, 1), Zero, Fin(75, 1)}

\* one value of each type, for the objects whose fields do not matter
OneText == {"a"}
OneAge == {25}
OneHeight == {Fin(7, 4)}

\* two values of each type
TwoAges == {17, 18}
TwoHeights == {Zero, Fin(7, 4)}

\* the most objects made: where a specification follows their lifetimes or
\* reads them (MaxObjects), and where it calls every setter on them
\* (MaxPopulation)
MaxObjects == 4
MaxPopulation == 2

\* ------------------------------------------------------- specifications
\* the constructors and factories, while fewer than N objects were made
MakeAddresses(T, N) ==
    \/ \E s, c, p \in T :
          Population < N /\ MakeAddress(s, c, p)
    \/ \E s, c, p \in T :
          Population < N /\ CreateAddress(s, c, p)

MakeContacts(T, N) ==
    \/ \E e, ph \in T, ar \in {Null} \cup AddrIds :
          Population < N /\ MakeContactInfo(e, ph, ar)
    \/ \E e, ph \in T, ar \in {Null} \cup AddrIds :
          Population < N /\ CreateContactInfo(e, ph, ar)

MakePersons(AG, HT, T, N) ==
    \/ \E ag \in AG, h \in HT, n \in T, cr \in {Null} \cup ContactIds :
          Population < N /\ MakePerson(ag, h, n, cr)
    \/ \E ag \in AG, h \in HT, n \in T, cr \in {Null} \cup ContactIds :
          Population < N /\ CreatePerson(ag, h, n, cr)

Lifetimes ==
    \/ \E c \in ContactIds : CopyAddressPtr(c)
    \/ \E a \in AddrIds : DropAddress(a)
    \/ \E c \in ContactIds : DropContact(c)
    \/ \E p \in PersonIds : DestroyPerson(p)

AddressSetters(T) ==
    \/ \E a \in AddrIds, v \in T : set_street(a, v)
    \/ \E a \in AddrIds, v \in T : set_city(a, v)
    \/ \E a \in AddrIds, v \in T : set_postal_code(a, v)

ContactSetters(T) ==
    \/ \E c \in ContactIds, v \in T : set_email(c, v)
    \/ \E c \in ContactIds, v \in T : set_phone(c, v)

PersonSetters(AG, HT, T) ==
    \/ \E p \in PersonIds, v \in AG : set_age(p, v)
    \/ \E p \in PersonIds, v \in HT : set_height(p, v)
    \/ \E p \in PersonIds, v \in T : set_name(p, v)

AddressGetters ==
    \/ \E a \in AddrIds : get_address_street(a)
    \/ \E a \in AddrIds : get_address_city(a)
    \/ \E a \in AddrIds : get_address_postal_code(a)

ContactGetters ==
    \/ \E c \in ContactIds : get_contact_email(c)
    \/ \E c \in ContactIds : get_contact_phone(c)
    \/ \E c \in ContactIds : get_contact_address(c)

PersonGetters ==
    \/ \E p \in PersonIds : get_person_age(p)
    \/ \E p \in PersonIds : get_person_height(p)
    \/ \E p \in PersonIds : get_person_name(p)
    \/ \E p \in PersonIds : get_person_contact(p)

Logic(WT) ==
    \/ \E p \in PersonIds : CallIsAdult(p)
    \/ \E p \in PersonIds, w \in WT : CallCalculateBmi(p, w)

\* object lifetimes: construction, pointer copies and destruction
Next ==
    \/ MakeAddresses(OneText, MaxObjects)
    \/ MakeContacts(OneText, MaxObjects)
    \/ MakePersons(OneAge, OneHeight, OneText, MaxObjects)
    \/ Lifetimes

Spec == Init /\ [][Next]_vars

\* the Address: construction, setters, getters
NextAddress ==
    \/ MakeAddresses(Texts, MaxObjects)
    \/ AddressSetters(Texts)
    \/ AddressGetters

SpecAddress == Init /\ [][NextAddress]_vars

\* an Address reached through ContactInfo and Person
NextShare ==
    \/ MakeAddresses(OneText, MaxObjects)
    \/ MakeContacts(OneText, MaxObjects)
    \/ MakePersons(OneAge, OneHeight, OneText, MaxObjects)
    \/ AddressSetters(Texts)

SpecShare == Init /\ [][NextShare]_vars

\* the Person: age, height and the business logic
NextPerson ==
    \/ MakePersons(Ages, Heights, OneText, MaxObjects)
    \/ \E p \in PersonIds, v \in Ages : set_age(p, v)
    \/ \E p \in PersonIds, v \in Heights : set_height(p, v)
    \/ Logic(Weights)

SpecPerson == Init /\ [][NextPerson]_vars

\* every setter, on at most MaxPopulation objects
NextSet ==
    \/ MakeAddresses(OneText, MaxPopulation)
    \/ MakeContacts(OneText, MaxPopulation)
    \/ MakePersons(TwoAges, OneHeight, OneText, MaxPopulation)
    \/ AddressSetters(Texts)
    \/ ContactSetters(Texts)
    \/ PersonSetters(TwoAges, TwoHeights, Texts)

SpecSet == Init /\ [][NextSet]_vars

\* every bridge accessor, on at most MaxObjects objects
NextGet ==
    \/ MakeAddresses(OneText, MaxObjects)
    \/ MakeContacts(OneText, MaxObjects)
    \/ MakePersons(TwoAges, OneHeight, Texts, MaxObjects)
    \/ AddressGetters
    \/ ContactGetters
    \/ PersonGetters

SpecGet == Init /\ [][NextGet]_vars

\* --------------------------------------------------------------- claims
Target(H) == H[call.target]

\* C1: is_adult() returns true exactly when the age of the Person, as last
\* set by the constructor or set_age, is at least 18.
IsAdultIffEighteen ==
    call.op = "is_adult" =>
        /\ call.kind = "bool"
        /\ call.flag = (Target(persons).age_ >= 18)
        /\ Target(persons).age_ = 17 => ~call.flag
        /\ Target(persons).age_ = 18 => call.flag

IsAdultAtBoundary ==
    /\ call.op = "is_adult"
    /\ Target(persons).age_ = 18
    /\ call.flag

\* C2: with a height that is zero or negative, calculate_bmi(w) returns
\* exactly 0.0 for every weight, and nothing is divided by zero.
BmiZeroForNonPositiveHeight ==
    LET h == Target(persons).height_ IN
    (call.op = "calculate_bmi" /\ h.k = "fin" /\ h.n <= 0) =>
        /\ call.kind = "double"
        /\ call.dbl = [k |-> "fin", n |-> 0, d |-> 1]

BmiAtZeroHeight ==
    /\ call.op = "calculate_bmi"
    /\ Target(persons).height_ = Zero
    /\ call.w = Fin(75, 1)

\* C3: with a positive height h and a weight w >= 0, calculate_bmi(w)
\* returns w / (h * h): the result r satisfies r * h * h = w.
BmiIsWeightOverHeightSquared ==
    LET h == Target(persons).height_
        w == call.w
        r == call.dbl IN
    (call.op = "calculate_bmi" /\ h.k = "fin" /\ h.n > 0
        /\ w.k = "fin" /\ w.n >= 0) =>
        /\ call.kind = "double"
        /\ r.k = "fin"
        /\ r.n * h.n * h.n * w.d = w.n * h.d * h.d * r.d

BmiOfBob ==
    /\ call.op = "calculate_bmi"
    /\ Target(persons).height_ = Fin(7, 4)
    /\ call.w = Fin(75, 1)
    /\ call.dbl = Fin(1200, 49)

\* every pointer member of a live object points to a live object
OwnedLive ==
    /\ \A p \in PersonIds :
          (Live(persons, p) /\ persons[p].contact_ # Null) =>
              Live(contacts, persons[p].contact_)
    /\ \A c \in ContactIds :
          (Live(contacts, c) /\ contacts[c].address_ # Null) =>
              Live(addrs, contacts[c].address_)

\* C4: destroying a Person leaves the ContactInfo it shares with another
\* live Person, and the Address of that ContactInfo, live and unchanged;
\* in every state the ContactInfo of a live Person and the Address of a
\* live ContactInfo are live.
SharedContactSurvives ==
    [][/\ OwnedLive'
       /\ \A p, q \in PersonIds :
            LET c == persons[q].contact_ IN
            (/\ call'.op = "~Person"
             /\ call'.target = p
             /\ DestroyPerson(p)
             /\ p # q
             /\ Live(persons, q)
             /\ c # Null
             /\ persons[p].contact_ = c) =>
                /\ Live(contacts', c)
                /\ email(contacts'[c]) = email(contacts[c])
                /\ phone(contacts'[c]) = phone(contacts[c])
                /\ address_ptr(contacts'[c]) = address_ptr(contacts[c])
                /\ address_ptr(contacts[c]) # Null =>
                     /\ Live(addrs', address_ptr(contacts[c]))
                     /\ street(addrs'[address_ptr(contacts[c])])
                          = street(addrs[address_ptr(contacts[c])])
                     /\ city(addrs'[address_ptr(contacts[c])])
                          = city(addrs[address_ptr(contacts[c])])
                     /\ postal_code(addrs'[address_ptr(contacts[c])])
                          = postal_code(addrs[address_ptr(contacts[c])])
      ]_vars

\* a Person was destroyed and the other Person is the only owner left of
\* the ContactInfo they shared
SurvivorOwnsContact ==
    /\ call.op = "~Person"
    /\ \E q \in PersonIds :
          /\ Live(persons, q)
          /\ persons[q].contact_ # Null
          /\ hC[persons[q].contact_] = 0
          /\ Live(contacts, persons[q].contact_)
          /\ contacts[persons[q].contact_].address_ # Null

\* the live owners of an Address and of a ContactInfo
ContactsOf(a) ==
    {c \in ContactIds : Live(contacts, c) /\ contacts[c].address_ = a}
PersonsOf(c) ==
    {p \in PersonIds : Live(persons, p) /\ persons[p].contact_ = c}

\* C5 as stated: an Address is live exactly while a live ContactInfo
\* points to it, and a ContactInfo exactly while a live Person points to it.
LiveIffOwnedByEntity ==
    /\ \A a \in AddrIds : Live(addrs, a) <=> ContactsOf(a) # {}
    /\ \A c \in ContactIds : Live(contacts, c) <=> PersonsOf(c) # {}

\* C5, amended: an Address is live exactly while a live ContactInfo or the
\* caller holds a pointer to it, and a ContactInfo exactly while a live
\* Person or the caller holds a pointer to it; the step that ends the last
\* pointer releases the object.
LiveIffPointerHeld ==
    /\ \A a \in AddrIds :
          /\ Live(addrs, a) <=> (ContactsOf(a) # {} \/ hA[a] > 0)
          /\ addrs[a].rc = Cardinality(ContactsOf(a)) + hA[a]
    /\ \A c \in ContactIds :
          /\ Live(contacts, c) <=> (PersonsOf(c) # {} \/ hC[c] > 0)
          /\ contacts[c].rc = Cardinality(PersonsOf(c)) + hC[c]

\* the destruction of the last Person released its ContactInfo and, with
\* it, the Address
ReleasedWithLastOwner ==
    /\ call.op = "~Person"
    /\ \E c \in ContactIds : contacts[c].st = "freed"
    /\ \E a \in AddrIds : addrs[a].st = "freed"

BridgeAccessors ==
    {"get_person_age", "get_person_height", "get_person_name",
     "get_person_contact", "get_contact_email", "get_contact_phone",
     "get_contact_address", "get_address_street", "get_address_city",
     "get_address_postal_code"}

\* C6: no bridge accessor fails, whatever arguments the object was made
\* with: it returns, and a reference it returns is to a live object.
AccessorsNeverFail ==
    call.op \in BridgeAccessors =>
        /\ call.kind # "fault"
        /\ call.op = "get_person_contact" => Live(contacts, call.num)
        /\ call.op = "get_contact_address" => Live(addrs, call.num)

AddressSetterNames == {"set_street", "set_city", "set_postal_code"}

Fields(a) == <<street(a), city(a), postal_code(a)>>

\* C7: an Address made by the constructor or by create_address holds the
\* three texts it was given, each in its own field; a step that is no
\* setter call on it leaves them as they are; and the bridge getters return
\* the stored street, city and postal code.
AddressRoundTrip ==
    [][/\ \A s, c, p \in Texts :
            (/\ call'.op \in {"Address", "create_address"}
             /\ MakeAddress(s, c, p) \/ CreateAddress(s, c, p)) =>
                Fields(addrs'[call'.num]) = <<s, c, p>>
       /\ \A a \in AddrIds :
            (/\ Live(addrs, a)
             /\ Live(addrs', a)
             /\ ~(call'.op \in AddressSetterNames /\ call'.target = a)) =>
                Fields(addrs'[a]) = Fields(addrs[a])
       /\ call'.op = "get_address_street" =>
            call'.text = Fields(addrs[call'.target])[1]
       /\ call'.op = "get_address_city" =>
            call'.text = Fields(addrs[call'.target])[2]
       /\ call'.op = "get_address_postal_code" =>
            call'.text = Fields(addrs[call'.target])[3]
      ]_vars

\* create_address("", "a", "") has just returned the Address
AddressWithEmptyTexts ==
    /\ call.op = "create_address"
    /\ Live(addrs, call.num)
    /\ Fields(addrs[call.num]) = <<"", "a", "">>

\* C8: a bridge accessor changes no field of any object and no pointer, and
\* called again on the same object right after, it returns the same value.
AccessorsReadOnly ==
    [][call'.op \in BridgeAccessors =>
          /\ heap' = heap
          /\ hA' = hA
          /\ hC' = hC
          /\ (call.op = call'.op /\ call.target = call'.target) =>
                call' = call
      ]_vars

\* get_person_name has returned the name of a Person
NameWasRead ==
    /\ call.op = "get_person_name"
    /\ call.text = "a"
    /\ name(Target(persons)) = "a"

\* every object but Address a, ContactInfo c and Person p is unchanged
Frame(a, c, p) ==
    /\ \A i \in AddrIds \ {a} : addrs'[i] = addrs[i]
    /\ \A i \in ContactIds \ {c} : contacts'[i] = contacts[i]
    /\ \A i \in PersonIds \ {p} : persons'[i] = persons[i]
    /\ hA' = hA
    /\ hC' = hC

\* C9: each setter stores its argument, whatever it is: the matching getter
\* then returns it, and the other fields of the object, the pointer it
\* holds and every other object are unchanged.
SettersReplaceOneField ==
    [][/\ \A a \in AddrIds, v \in Texts :
            /\ (/\ call'.op = "set_street"
                /\ call'.target = a
                /\ set_street(a, v)) =>
                 /\ street(addrs'[a]) = v
                 /\ city(addrs'[a]) = city(addrs[a])
                 /\ postal_code(addrs'[a]) = postal_code(addrs[a])
                 /\ addrs'[a].rc = addrs[a].rc
                 /\ addrs'[a].st = "live"
                 /\ Frame(a, Null, Null)
            /\ (/\ call'.op = "set_city"
                /\ call'.target = a
                /\ set_city(a, v)) =>
                 /\ city(addrs'[a]) = v
                 /\ street(addrs'[a]) = street(addrs[a])
                 /\ postal_code(addrs'[a]) = postal_code(addrs[a])
                 /\ addrs'[a].rc = addrs[a].rc
                 /\ addrs'[a].st = "live"
                 /\ Frame(a, Null, Null)
            /\ (/\ call'.op = "set_postal_code"
                /\ call'.target = a
                /\ set_postal_code(a, v)) =>
                 /\ postal_code(addrs'[a]) = v
                 /\ street(addrs'[a]) = street(addrs[a])
                 /\ city(addrs'[a]) = city(addrs[a])
                 /\ addrs'[a].rc = addrs[a].rc
                 /\ addrs'[a].st = "live"
                 /\ Frame(a, Null, Null)
       /\ \A c \in ContactIds, v \in Texts :
            /\ (/\ call'.op = "set_email"
                /\ call'.target = c
                /\ set_email(c, v)) =>
                 /\ email(contacts'[c]) = v
                 /\ phone(contacts'[c]) = phone(contacts[c])
                 /\ address_ptr(contacts'[c]) = address_ptr(contacts[c])
                 /\ contacts'[c].rc = contacts[c].rc
                 /\ contacts'[c].st = "live"
                 /\ Frame(Null, c, Null)
            /\ (/\ call'.op = "set_phone"
                /\ call'.target = c
                /\ set_phone(c, v)) =>
                 /\ phone(contacts'[c]) = v
                 /\ email(contacts'[c]) = email(contacts[c])
                 /\ address_ptr(contacts'[c]) = address_ptr(contacts[c])
                 /\ contacts'[c].rc = contacts[c].rc
                 /\ contacts'[c].st = "live"
                 /\ Frame(Null, c, Null)
       /\ \A p \in PersonIds :
            /\ \A v \in TwoAges :
                 (/\ call'.op = "set_age"
                  /\ call'.target = p
                  /\ set_age(p, v)) =>
                    /\ age(persons'[p]) = v
                    /\ height(persons'[p]) = height(persons[p])
                    /\ name(persons'[p]) = name(persons[p])
                    /\ contact(persons'[p]) = contact(persons[p])
                    /\ persons'[p].st = "live"
                    /\ Frame(Null, Null, p)
            /\ \A v \in TwoHeights :
                 (/\ call'.op = "set_height"
                  /\ call'.target = p
                  /\ set_height(p, v)) =>
                    /\ height(persons'[p]) = v
                    /\ age(persons'[p]) = age(persons[p])
                    /\ name(persons'[p]) = name(persons[p])
                    /\ contact(persons'[p]) = contact(persons[p])
                    /\ persons'[p].st = "live"
                    /\ Frame(Null, Null, p)
            /\ \A v \in Texts :
                 (/\ call'.op = "set_name"
                  /\ call'.target = p
                  /\ set_name(p, v)) =>
                    /\ name(persons'[p]) = v
                    /\ age(persons'[p]) = age(persons[p])
                    /\ height(persons'[p]) = height(persons[p])
                    /\ contact(persons'[p]) = contact(persons[p])
                    /\ persons'[p].st = "live"
                    /\ Frame(Null, Null, p)
      ]_vars

\* set_height(0.0) was called on a Person, with MaxPopulation objects made
HeightSetToZero ==
    /\ call.op = "set_height"
    /\ height(Target(persons)) = Zero
    /\ Population = MaxPopulation

\* the Address a live ContactInfo c, and a live Person p, reaches
AddressOfContact(C, c) == address(C[c])
AddressOfPerson(P, C, p) ==
    IF contact(P[p]) = Null THEN Null ELSE address(C[contact(P[p])])

\* C10: a ContactInfo keeps the pointer to the Address it was made with,
\* and a Person the pointer to its ContactInfo, for as long as they live;
\* so a setter called on an Address is seen through address() of every
\* ContactInfo made with it and through contact().address() of every Person
\* that reaches it.
AddressIsShared ==
    [][/\ \A e, ph \in OneText, ar \in {Null} \cup AddrIds :
            (/\ call'.op \in {"ContactInfo", "create_contact_info"}
             /\ MakeContactInfo(e, ph, ar) \/ CreateContactInfo(e, ph, ar)) =>
                /\ address_ptr(contacts'[call'.num]) = ar
                /\ ar # Null => Fields(addrs'[ar]) = Fields(addrs[ar])
       /\ \A ag \in OneAge, h \in OneHeight, n \in OneText,
             cr \in {Null} \cup ContactIds :
            (/\ call'.op \in {"Person", "create_person"}
             /\ MakePerson(ag, h, n, cr) \/ CreatePerson(ag, h, n, cr)) =>
                contact(persons'[call'.num]) = cr
       /\ \A c \in ContactIds :
            (Live(contacts, c) /\ Live(contacts', c)) =>
                address_ptr(contacts'[c]) = address_ptr(contacts[c])
       /\ \A p \in PersonIds :
            (Live(persons, p) /\ Live(persons', p)) =>
                contact(persons'[p]) = contact(persons[p])
       /\ \A a \in AddrIds, v \in Texts :
            LET seen == {Fields(addrs'[AddressOfContact(contacts', c)]) :
                            c \in {i \in ContactIds :
                                     /\ Live(contacts, i)
                                     /\ AddressOfContact(contacts, i) = a}}
                        \cup
                        {Fields(addrs'[AddressOfPerson(persons', contacts', p)]) :
                            p \in {i \in PersonIds :
                                     /\ Live(persons, i)
                                     /\ AddressOfPerson(persons, contacts, i) = a}}
            IN
            /\ (/\ call'.op = "set_street"
                /\ call'.target = a
                /\ set_street(a, v)) =>
                 seen \subseteq {<<v, city(addrs[a]), postal_code(addrs[a])>>}
            /\ (/\ call'.op = "set_city"
                /\ call'.target = a
                /\ set_city(a, v)) =>
                 seen \subseteq {<<street(addrs[a]), v, postal_code(addrs[a])>>}
            /\ (/\ call'.op = "set_postal_code"
                /\ call'.target = a
                /\ set_postal_code(a, v)) =>
                 seen \subseteq {<<street(addrs[a]), city(addrs[a]), v>>}
      ]_vars

\* set_city was called on an Address that two ContactInfo share, one of
\* them the contact of a Person
SharedAddressWasSet ==
    /\ call.op = "set_city"
    /\ \E c1, c2 \in ContactIds, p \in PersonIds :
          /\ c1 # c2
          /\ Live(contacts, c1)
          /\ Live(contacts, c2)
          /\ address_ptr(contacts[c1]) = call.target
          /\ address_ptr(contacts[c2]) = call.target
          /\ Live(persons, p)
          /\ contact(persons[p]) = c1
          /\ city(addrs[call.target]) = ""

====
